---- MODULE Spec2Model ----
(***************************************************************************)
(* Model of src/i2s.rs of stm32f4xx-hal: the I2S pin capability traits     *)
(* (PinWs, PinCk, PinMck, PinSd, Pins), the per-variant pin tables         *)
(* (mck_pins, ws_pins) and the Enable implementations of SPI1..SPI5 that   *)
(* switch a peripheral on through the RCC registers.                       *)
(***************************************************************************)
EXTENDS Integers, Sequences, FiniteSets

VARIABLES
    variant,     \* the chip feature the crate is compiled with
    pinMosi,     \* spi::PinMosi<SPI> implementations (crate::spi), as <<SPI, type>>
    pinSck,      \* spi::PinSck<SPI> implementations (crate::spi), as <<SPI, type>>
    last,        \* the last tuple checked against Pins<SPI>, with the outcome
    rcc,         \* the RCC register block: apb1enr, apb2enr, apb1rstr, apb2rstr
    rcc0,        \* the RCC register block before any enable() ran
    called,      \* per execution context: the peripherals it has called enable() for, in order
    pc,          \* per execution context: the next statement of enable() (0: not in enable)
    issued,      \* per execution context: the bb:: operations it has issued, in order
    overlapped   \* whether a statement ran while another context was part-way through enable()

vars == <<variant, pinMosi, pinSck, last, rcc, rcc0, called, pc, issued, overlapped>>

(***************************************************************************)
(* Chip variants (cargo features) and peripherals named in the file.       *)
(***************************************************************************)
Variants ==
    { "stm32f401", "stm32f405", "stm32f407", "stm32f410", "stm32f411",
      "stm32f412", "stm32f413", "stm32f415", "stm32f417", "stm32f423",
      "stm32f427", "stm32f429", "stm32f437", "stm32f439", "stm32f446",
      "stm32f469", "stm32f479" }

Periph == { "SPI1", "SPI2", "SPI3", "SPI4", "SPI5" }

\* A pin type $pin<Alternate<$af>> is the pair <<pin, af>>.
NoMasterClock == << "NoMasterClock", "none" >>

(***************************************************************************)
(* mod mck_pins: each cfg-gated module is [cfg, impls]; impls holds one    *)
(* <<PER, <<pin, af>>>> per line of its pin_mck! invocation.               *)
(***************************************************************************)
mck_common ==
    [ cfg   |-> Variants,
      impls |-> { << "SPI2", << "PC6", "AF5" >> >> } ]

mck_pa3_pa6_pb10 ==
    [ cfg   |-> { "stm32f411", "stm32f412", "stm32f413", "stm32f423" },
      impls |-> { << "SPI2", << "PA3", "AF5" >> >>,
                  << "SPI2", << "PA6", "AF6" >> >>,
                  << "SPI3", << "PB10", "AF6" >> >> } ]

mck_pc4_af5 ==
    [ cfg   |-> { "stm32f412", "stm32f413", "stm32f423", "stm32f446" },
      impls |-> { << "SPI1", << "PC4", "AF5" >> >> } ]

mck_i2s3_pc7_af6 ==
    [ cfg   |-> { "stm32f401", "stm32f405", "stm32f407", "stm32f411",
                  "stm32f412", "stm32f413", "stm32f415", "stm32f417",
                  "stm32f423", "stm32f427", "stm32f429", "stm32f437",
                  "stm32f439", "stm32f446", "stm32f469", "stm32f479" },
      impls |-> { << "SPI3", << "PC7", "AF6" >> >> } ]

mck_i2s1_pc7_af6 ==
    [ cfg   |-> { "stm32f410" },
      impls |-> { << "SPI1", << "PC7", "AF6" >> >>,
                  << "SPI1", << "PB10", "AF6" >> >> } ]

mck_pins ==
    { mck_common, mck_pa3_pa6_pb10, mck_pc4_af5, mck_i2s3_pc7_af6,
      mck_i2s1_pc7_af6 }

(***************************************************************************)
(* mod ws_pins, in the same form (pin_ws!).                                *)
(***************************************************************************)
ws_common ==
    [ cfg   |-> Variants,
      impls |-> { << "SPI2", << "PB9", "AF5" >> >>,
                  << "SPI2", << "PB12", "AF5" >> >> } ]

ws_not_f410 ==
    [ cfg   |-> { "stm32f401", "stm32f405", "stm32f407", "stm32f411",
                  "stm32f412", "stm32f413", "stm32f415", "stm32f417",
                  "stm32f423", "stm32f427", "stm32f429", "stm32f437",
                  "stm32f439", "stm32f446", "stm32f469", "stm32f479" },
      impls |-> { << "SPI3", << "PA4", "AF6" >> >>,
                  << "SPI3", << "PA15", "AF6" >> >> } ]

ws_pa4_af5_pa15_af5_af6_typo ==
    [ cfg   |-> { "stm32f410", "stm32f411", "stm32f412", "stm32f413",
                  "stm32f423", "stm32f446" },
      impls |-> { << "SPI1", << "PA4", "AF6" >> >>,
                  << "SPI1", << "PA15", "AF5" >> >> } ]

ws_pa4_af5_pa15_af5 ==
    [ cfg   |-> { "stm32f410", "stm32f411", "stm32f412", "stm32f413",
                  "stm32f423", "stm32f446" },
      impls |-> { << "SPI1", << "PA4", "AF5" >> >>,
                  << "SPI1", << "PA15", "AF5" >> >> } ]

ws_pb12_pe4_pe11_wrong_af ==
    [ cfg   |-> { "stm32f411", "stm32f412", "stm32f413", "stm32f423" },
      impls |-> { << "SPI4", << "PB12", "AF6" >> >>,
                  << "SPI4", << "PE4", "AF5" >> >>,
                  << "SPI4", << "PE11", "AF5" >> >>,
                  << "SPI5", << "PE4", "AF6" >> >>,
                  << "SPI5", << "PE11", "AF6" >> >>,
                  << "SPI4", << "PE4", "AF6" >> >> } ]

ws_pb12_pe4_pe11 ==
    [ cfg   |-> { "stm32f411", "stm32f412", "stm32f413", "stm32f423" },
      impls |-> { << "SPI4", << "PB12", "AF6" >> >>,
                  << "SPI4", << "PE4", "AF5" >> >>,
                  << "SPI4", << "PE11", "AF5" >> >>,
                  << "SPI5", << "PE4", "AF6" >> >>,
                  << "SPI5", << "PE11", "AF6" >> >> } ]

ws_pa11 ==
    [ cfg   |-> { "stm32f413", "stm32f423" },
      impls |-> { << "SPI2", << "PA11", "AF5" >> >> } ]

ws_pb1 ==
    [ cfg   |-> { "stm32f410", "stm32f411", "stm32f412", "stm32f413",
                  "stm32f423" },
      impls |-> { << "SPI5", << "PB1", "AF6" >> >> } ]

ws_pb4_pd1 ==
    [ cfg   |-> { "stm32f446" },
      impls |-> { << "SPI2", << "PB4", "AF7" >> >>,
                  << "SPI2", << "PD1", "AF7" >> >> } ]

ws_pi0 ==
    [ cfg   |-> { "stm32f405", "stm32f407", "stm32f415", "stm32f417",
                  "stm32f427", "stm32f429", "stm32f437", "stm32f439",
                  "stm32f469", "stm32f479" },
      impls |-> { << "SPI2", << "PI0", "AF5" >> >> } ]

ws_pins ==
    { ws_common, ws_not_f410, ws_pa4_af5_pa15_af5, ws_pb12_pe4_pe11, ws_pa11,
      ws_pb1, ws_pb4_pd1, ws_pi0 }

\* The items of the modules of a set that are compiled in under feature v.
Compiled(mods, v) == { m \in mods : v \in m.cfg }

\* impl PinMck<$PER> for $pin<Alternate<$af>>, as compiled for v.
pin_mck(v) == UNION { m.impls : m \in Compiled(mck_pins, v) }

\* impl PinWs<$PER> for $pin<Alternate<$af>>, as compiled for v.
pin_ws(v) == UNION { m.impls : m \in Compiled(ws_pins, v) }


(***************************************************************************)
(* The RCC bit table documented above the spiN modules.                    *)
(***************************************************************************)
RccTable ==
    [ SPI1 |-> [ bus |-> "apb2", bit |-> 12 ],
      SPI2 |-> [ bus |-> "apb1", bit |-> 14 ],
      SPI3 |-> [ bus |-> "apb1", bit |-> 15 ],
      SPI4 |-> [ bus |-> "apb2", bit |-> 13 ],
      SPI5 |-> [ bus |-> "apb2", bit |-> 20 ] ]

(***************************************************************************)
(* mod spi1 .. spi5.  The body of each enable() is the sequence of its     *)
(* bb:: statements; each module is [cfg, enable, body, nomck]: the type    *)
(* Enable is implemented for, the body of enable(), and the type of        *)
(* impl PinMck<..> for NoMasterClock.                                      *)
(***************************************************************************)
Stmt(op, reg, bit) == [ op |-> op, reg |-> reg, bit |-> bit ]

spi1_SPI_BIT == 12

spi2_SPI_BIT == 14

spi3_SPI_BIT_copied == spi2_SPI_BIT

spi3_SPI_BIT == 15

spi4_SPI_BIT == 13

spi5_SPI_BIT_copied == spi1_SPI_BIT

spi5_SPI_BIT == 20

spi1_enable_release_first ==
    << Stmt("set", "apb2enr", spi1_SPI_BIT),
       Stmt("clear", "apb2rstr", spi1_SPI_BIT),
       Stmt("set", "apb2rstr", spi1_SPI_BIT) >>

spi1_enable ==
    << Stmt("set", "apb2enr", spi1_SPI_BIT),
       Stmt("set", "apb2rstr", spi1_SPI_BIT),
       Stmt("clear", "apb2rstr", spi1_SPI_BIT) >>

spi2_enable_reset_first ==
    << Stmt("set", "apb1rstr", spi2_SPI_BIT),
       Stmt("set", "apb1enr", spi2_SPI_BIT),
       Stmt("clear", "apb1rstr", spi2_SPI_BIT) >>

spi2_enable ==
    << Stmt("set", "apb1enr", spi2_SPI_BIT),
       Stmt("set", "apb1rstr", spi2_SPI_BIT),
       Stmt("clear", "apb1rstr", spi2_SPI_BIT) >>

spi3_enable ==
    << Stmt("set", "apb1enr", spi3_SPI_BIT),
       Stmt("set", "apb1rstr", spi3_SPI_BIT),
       Stmt("clear", "apb1rstr", spi3_SPI_BIT) >>

spi4_enable_wrong_bus ==
    << Stmt("set", "apb2enr", spi4_SPI_BIT),
       Stmt("set", "apb1rstr", spi4_SPI_BIT),
       Stmt("clear", "apb1rstr", spi4_SPI_BIT) >>

spi4_enable ==
    << Stmt("set", "apb2enr", spi4_SPI_BIT),
       Stmt("set", "apb2rstr", spi4_SPI_BIT),
       Stmt("clear", "apb2rstr", spi4_SPI_BIT) >>

spi5_enable_no_release ==
    << Stmt("set", "apb2enr", spi5_SPI_BIT),
       Stmt("set", "apb2rstr", spi5_SPI_BIT),
       Stmt("set", "apb2rstr", spi5_SPI_BIT) >>

spi5_enable ==
    << Stmt("set", "apb2enr", spi5_SPI_BIT),
       Stmt("set", "apb2rstr", spi5_SPI_BIT),
       Stmt("clear", "apb2rstr", spi5_SPI_BIT) >>

spi1 ==
    [ cfg    |-> { "stm32f410", "stm32f411", "stm32f412", "stm32f413",
                   "stm32f423", "stm32f446" },
      enable |-> { "SPI1" },
      body   |-> spi1_enable,
      nomck  |-> { "SPI1" } ]

spi2 ==
    [ cfg    |-> Variants,
      enable |-> { "SPI2" },
      body   |-> spi2_enable,
      nomck  |-> { "SPI2" } ]

spi3 ==
    [ cfg    |-> { "stm32f401", "stm32f405", "stm32f407", "stm32f411",
                   "stm32f412", "stm32f413", "stm32f415", "stm32f417",
                   "stm32f423", "stm32f427", "stm32f429", "stm32f437",
                   "stm32f439", "stm32f446", "stm32f469", "stm32f479" },
      enable |-> { "SPI3" },
      body   |-> spi3_enable,
      nomck  |-> { "SPI3" } ]

spi4_without_placeholder ==
    [ cfg    |-> { "stm32f411", "stm32f412", "stm32f413", "stm32f423" },
      enable |-> { "SPI4" },
      body   |-> spi4_enable,
      nomck  |-> {} ]

spi4 ==
    [ cfg    |-> { "stm32f411", "stm32f412", "stm32f413", "stm32f423" },
      enable |-> { "SPI4" },
      body   |-> spi4_enable,
      nomck  |-> { "SPI4" } ]

spi5 ==
    [ cfg    |-> { "stm32f410", "stm32f411", "stm32f412", "stm32f413",
                   "stm32f423" },
      enable |-> { "SPI5" },
      body   |-> spi5_enable,
      nomck  |-> { "SPI5" } ]

spi_mods == { spi1, spi2, spi3, spi4, spi5 }

\* The types Enable is implemented for under feature v.
EnableImpl(v) == UNION { m.enable : m \in Compiled(spi_mods, v) }

\* The body of <p as Enable>::enable under feature v.
EnableBody(v, p) ==
    (CHOOSE m \in Compiled(spi_mods, v) : p \in m.enable).body

(***************************************************************************)
(* The capability traits.                                                  *)
(***************************************************************************)
\* T: PinWs<P>
PinWs(v, P, T) == << P, T >> \in pin_ws(v)

\* T: PinMck<P>: the pin_mck! implementations and those for NoMasterClock.
PinMck(v, P, T) ==
    \/ << P, T >> \in pin_mck(v)
    \/ /\ T = NoMasterClock
       /\ \E m \in Compiled(spi_mods, v) : P \in m.nomck

\* T: PinCk<P>, the blanket implementation over spi::PinSck<P>.
PinCk(P, T) == << P, T >> \in pinSck

\* T: PinSd<P>, the blanket implementation over spi::PinMosi<P>.
PinSd(P, T) == << P, T >> \in pinMosi

PinsWithoutWsBound(v, P, t) ==
    /\ PinCk(P, t[2])
    /\ PinMck(v, P, t[3])
    /\ PinSd(P, t[4])

\* (PWS, PCK, PMCLK, PSD): Pins<P>
Pins(v, P, t) ==
    /\ PinWs(v, P, t[1])
    /\ PinCk(P, t[2])
    /\ PinMck(v, P, t[3])
    /\ PinSd(P, t[4])


(***************************************************************************)
(* Checking a tuple of pin types against Pins<P> (what the compiler does   *)
(* where a tuple is used as the pins of an I2S peripheral).                *)
(***************************************************************************)
\* No tuple is under check (the run is about enable()).
NoBind == [ per |-> "none", checked |-> FALSE, ok |-> FALSE ]

\* The pin types of the two pin tables, over all variants.
WsTypes == { f[2] : f \in UNION { m.impls : m \in ws_pins } }

MckTypes == { f[2] : f \in UNION { m.impls : m \in mck_pins } }

\* The pin types crate::spi is taken to know: one SCK pin and one MOSI pin.
SckPin == << "PB13", "AF5" >>

MosiPin == << "PB15", "AF5" >>

\* The peripherals the SCK pin, and the MOSI pin, may be declared for.
SpiPeriphSets == { Periph, { "SPI1", "SPI2", "SPI3" } }

\* The types tried in each slot of the tuple.
WsSlot == WsTypes \cup { MosiPin, NoMasterClock, << "PC6", "AF5" >> }

CkSlot == { SckPin, MosiPin }

MckSlot == MckTypes \cup { NoMasterClock, MosiPin, << "PB9", "AF5" >> }

SdSlot == { MosiPin, SckPin }

\* The tuple (ws, ck, mck, sd) offered as the pins of peripheral P.
Offer(P, ws, ck, mck, sd) ==
    [ per |-> P, ws |-> ws, ck |-> ck, mck |-> mck, sd |-> sd,
      checked |-> FALSE, ok |-> FALSE ]

\* The offered tuple is checked against Pins<P>.
Bind ==
    /\ last.per # "none"
    /\ ~last.checked
    /\ last' = [ last EXCEPT
                   !.checked = TRUE,
                   !.ok = Pins(variant, last.per,
                               << last.ws, last.ck, last.mck, last.sd >>) ]
    /\ UNCHANGED << variant, pinMosi, pinSck, rcc, rcc0, called, pc, issued,
                    overlapped >>

(***************************************************************************)
(* The RCC registers and bb::set / bb::clear.  A register is the set of    *)
(* its bits that are 1.                                                    *)
(***************************************************************************)
Regs == { "apb1enr", "apb2enr", "apb1rstr", "apb2rstr" }

\* The execution contexts enable() may be called from.
Ctx == { "main", "irq" }

\* bb::set(register, bit): one atomic write that sets that bit alone.
bb_set(r, bit) == r \cup { bit }

\* bb::clear(register, bit): one atomic write that clears that bit alone.
bb_clear(r, bit) == r \ { bit }

\* One statement of an enable() body, run on the register block.
Exec(st, regs) ==
    [ regs EXCEPT ![st.reg] = IF st.op = "set" THEN bb_set(@, st.bit)
                                               ELSE bb_clear(@, st.bit) ]

\* The peripheral whose enable() context c is in.
cur(c) == called[c][Len(called[c])]

TotalCalls == Len(called["main"]) + Len(called["irq"])

MaxCalls == 2

\* Context c enters <p as Enable>::enable().
Call(c, p) ==
    /\ pc[c] = 0
    /\ p \in EnableImpl(variant)
    /\ TotalCalls < MaxCalls
    /\ called' = [ called EXCEPT ![c] = Append(@, p) ]
    /\ pc' = [ pc EXCEPT ![c] = 1 ]
    /\ UNCHANGED << variant, pinMosi, pinSck, last, rcc, rcc0, issued,
                    overlapped >>

\* Context c runs the next statement of the enable() it is in; after the
\* last statement enable() returns.
Step(c) ==
    /\ pc[c] # 0
    /\ LET body == EnableBody(variant, cur(c))
           st   == body[pc[c]]
       IN  /\ rcc' = Exec(st, rcc)
           /\ issued' = [ issued EXCEPT ![c] =
                            Append(@, [ per |-> cur(c), op |-> st.op,
                                        reg |-> st.reg, bit |-> st.bit ]) ]
           /\ pc' = [ pc EXCEPT ![c] = IF pc[c] = Len(body) THEN 0 ELSE @ + 1 ]
    /\ overlapped' = ( overlapped \/ \E d \in Ctx \ { c } : pc[d] > 1 )
    /\ UNCHANGED << variant, pinMosi, pinSck, last, rcc0, called >>

(***************************************************************************)
(* Specifications.  SpecBind checks tuples against Pins<P> on every        *)
(* variant; SpecEnable runs enable() calls from the two contexts, from     *)
(* a choice of initial register contents.                                  *)
(***************************************************************************)
ResetRcc == [ r \in Regs |-> {} ]

\* Initial contents tried for each register.
RegPatterns == { { 0, 12, 14, 20 }, { 13, 15, 31 } }

InitBind ==
    /\ variant \in Variants
    /\ pinSck \in { S \X { SckPin } : S \in SpiPeriphSets }
    /\ pinMosi \in { S \X { MosiPin } : S \in SpiPeriphSets }
    /\ last \in { Offer(P, ws, ck, mck, sd) :
                     P \in Periph, ws \in WsSlot, ck \in CkSlot,
                     mck \in MckSlot, sd \in SdSlot }
    /\ rcc = ResetRcc
    /\ rcc0 = ResetRcc
    /\ called = [ c \in Ctx |-> << >> ]
    /\ pc = [ c \in Ctx |-> 0 ]
    /\ issued = [ c \in Ctx |-> << >> ]
    /\ overlapped = FALSE

NextBind == Bind

SpecBind == InitBind /\ [][NextBind]_vars

InitEnable ==
    /\ variant \in Variants
    /\ pinSck = {}
    /\ pinMosi = {}
    /\ last = NoBind
    /\ rcc0 \in [ Regs -> RegPatterns ]
    /\ rcc = rcc0
    /\ called = [ c \in Ctx |-> << >> ]
    /\ pc = [ c \in Ctx |-> 0 ]
    /\ issued = [ c \in Ctx |-> << >> ]
    /\ overlapped = FALSE

NextEnable ==
    \/ \E c \in Ctx, p \in Periph : Call(c, p)
    \/ \E c \in Ctx : Step(c)

SpecEnable == InitEnable /\ [][NextEnable]_vars


(***************************************************************************)
(* What the documented RCC table says of a peripheral.                     *)
(***************************************************************************)
EnrOf(p) == IF RccTable[p].bus = "apb1" THEN "apb1enr" ELSE "apb2enr"

RstrOf(p) == IF RccTable[p].bus = "apb1" THEN "apb1rstr" ELSE "apb2rstr"

BitOf(p) == RccTable[p].bit

\* The three operations of the documented protocol, as issued by enable(p).
Group(p) ==
    << [ per |-> p, op |-> "set",   reg |-> EnrOf(p),  bit |-> BitOf(p) ],
       [ per |-> p, op |-> "set",   reg |-> RstrOf(p), bit |-> BitOf(p) ],
       [ per |-> p, op |-> "clear", reg |-> RstrOf(p), bit |-> BitOf(p) ] >>

\* Registers r with p's clock-enable bit set and p's reset bit clear.
After(r, p) ==
    [ r EXCEPT ![EnrOf(p)] = @ \cup { BitOf(p) },
               ![RstrOf(p)] = @ \ { BitOf(p) } ]

\* A non-empty sequence of calls, all for p.
AllFor(seq, p) == seq # << >> /\ \A i \in 1..Len(seq) : seq[i] = p

Idle == \A c \in Ctx : pc[c] = 0

\* The statements of the enable() in progress in context c already run.
StepsDone(c) == IF pc[c] = 0 THEN 0 ELSE pc[c] - 1

\* The enable() calls of context c that have returned.
Returned(c) == IF pc[c] = 0 THEN Len(called[c]) ELSE Len(called[c]) - 1

(***************************************************************************)
(* C1: every enable(p) issues exactly three register operations, in the    *)
(* order set p's clock-enable bit, set p's reset bit, clear p's reset bit, *)
(* whatever the registers held and however often it ran before: the        *)
(* operations a context has issued are one such group per call, 3n for n   *)
(* returned calls, none skipped or reordered.                              *)
(***************************************************************************)
C1_ThreeStepGroups ==
    \A c \in Ctx :
        /\ Len(issued[c]) = 3 * Returned(c) + StepsDone(c)
        /\ \A i \in 1..Len(issued[c]) :
              /\ ((i - 1) \div 3) + 1 <= Len(called[c])
              /\ issued[c][i] =
                    Group(called[c][((i - 1) \div 3) + 1])[((i - 1) % 3) + 1]

C1_Witness ==
    \E c \in Ctx, p \in Periph :
        /\ called[c] = << p, p >>
        /\ pc[c] = 0
        /\ issued[c] = Group(p) \o Group(p)
        /\ BitOf(p) \in rcc0[EnrOf(p)]

OwnBits(p) == { << EnrOf(p), BitOf(p) >>, << RstrOf(p), BitOf(p) >> }

FrameStep ==
    \A c \in Ctx :
        (pc[c] # 0 /\ pc'[c] # pc[c]) =>
            \A r \in Regs, b \in 0..31 :
                ((b \in rcc[r]) # (b \in rcc'[r])) => << r, b >> \in OwnBits(cur(c))

(***************************************************************************)
(* C2: every statement of enable(p) changes at most p's own clock-enable   *)
(* bit in p's enable register and p's own reset bit in p's reset register; *)
(* every other bit of the four registers, those of other peripherals and   *)
(* of the other bus included, keeps its value across the step.             *)
(***************************************************************************)
C2_FrameOfEnable == [][FrameStep]_vars

C2_Witness ==
    \E c \in Ctx, p \in Periph :
        /\ called[c] = << p >>
        /\ pc[c] = 0
        /\ \A d \in Ctx \ { c } : called[d] = << >>
        /\ BitOf(p) \notin rcc0[EnrOf(p)]
        /\ BitOf(p) \in rcc0[RstrOf(p)]
        /\ rcc0[EnrOf(p)] # {}
        /\ \A r \in Regs : rcc[r] \ { BitOf(p) } = rcc0[r] \ { BitOf(p) }
        /\ rcc # rcc0

(***************************************************************************)
(* C3: when enable(p) and enable(q) of two different peripherals on the    *)
(* same bus run in the two contexts, then under every interleaving of      *)
(* their statements, once both have returned both clock-enable bits are    *)
(* set, both reset bits are clear and every other bit is as it was.        *)
(***************************************************************************)
C3_NoLostUpdate ==
    \A p, q \in Periph :
        ( /\ p # q
          /\ RccTable[p].bus = RccTable[q].bus
          /\ called["main"] = << p >>
          /\ called["irq"] = << q >>
          /\ Idle )
        => rcc = After(After(rcc0, p), q)

C3_Witness ==
    /\ called["main"] = << "SPI2" >>
    /\ called["irq"] = << "SPI3" >>
    /\ Idle
    /\ overlapped
    /\ rcc0["apb1enr"] = { 13, 15, 31 }
    /\ rcc["apb1enr"] = { 13, 14, 15, 31 }

(***************************************************************************)
(* C7: enable is idempotent in effect: after enable(p), and after          *)
(* enable(p) followed by enable(p), the registers are the initial ones     *)
(* with p's clock-enable bit set and p's reset bit clear; a repeated call  *)
(* differs only by passing through the state with the reset bit set.       *)
(***************************************************************************)
C7_IdempotentEnable ==
    \A c \in Ctx, p \in Periph :
        ( /\ \A d \in Ctx \ { c } : called[d] = << >>
          /\ AllFor(called[c], p) )
        => /\ pc[c] = 0 => rcc = After(rcc0, p)
           /\ (Len(called[c]) >= 2 /\ pc[c] \in { 1, 2 }) => rcc = After(rcc0, p)
           /\ (Len(called[c]) >= 2 /\ pc[c] = 3) =>
                 rcc = [ After(rcc0, p) EXCEPT ![RstrOf(p)] = @ \cup { BitOf(p) } ]

C7_Witness ==
    \E c \in Ctx :
        /\ called[c] = << "SPI5", "SPI5" >>
        /\ pc[c] = 0
        /\ \A d \in Ctx \ { c } : called[d] = << >>
        /\ 20 \notin rcc0["apb2enr"]
        /\ 20 \in rcc["apb2enr"]
        /\ 20 \notin rcc["apb2rstr"]

StmtBits(body) == { << body[i].reg, body[i].bit >> : i \in 1..Len(body) }

(***************************************************************************)
(* C9: the enable() of each peripheral uses the bus and bit of the         *)
(* documented table (SPI1 APB2 12, SPI2 APB1 14, SPI3 APB1 15, SPI4 APB2   *)
(* 13, SPI5 APB2 20), the same on every variant that declares it and with  *)
(* the same bit index in the enable and the reset register, so no two      *)
(* peripherals use the same (register, bit).  The formula is stated of the *)
(* compiled variant, which ranges over all seventeen.                      *)
(***************************************************************************)
C9_DocumentedBits ==
    /\ \A p \in EnableImpl(variant) :
          LET body == EnableBody(variant, p)
          IN  /\ body[1].reg = EnrOf(p)
              /\ StmtBits(body) = OwnBits(p)
    /\ \A p, q \in EnableImpl(variant) :
          p # q => OwnBits(p) \cap OwnBits(q) = {}
    /\ \A c \in Ctx : \A i \in 1..Len(issued[c]) :
          << issued[c][i].reg, issued[c][i].bit >> \in OwnBits(issued[c][i].per)

C9_Witness ==
    /\ called["main"] = << "SPI1" >>
    /\ called["irq"] = << "SPI5" >>
    /\ Idle
    /\ { 12, 20 } \subseteq rcc["apb2enr"]
    /\ 20 \notin rcc0["apb2enr"]

(***************************************************************************)
(* C10: when enable(p) calls for the same peripheral p interleave, no call *)
(* ever waits (its next statement can always run), and once all of them    *)
(* have returned p's clock-enable bit is set and p's reset bit is clear.   *)
(***************************************************************************)
C10_SamePeripheralRace ==
    /\ \A c \in Ctx : pc[c] # 0 => ENABLED Step(c)
    /\ \A p \in Periph :
          (Idle /\ \A c \in Ctx : AllFor(called[c], p))
          => /\ BitOf(p) \in rcc[EnrOf(p)]
             /\ BitOf(p) \notin rcc[RstrOf(p)]

C10_Witness ==
    \E p \in Periph :
        /\ Idle
        /\ \A c \in Ctx : AllFor(called[c], p)
        /\ overlapped
        /\ BitOf(p) \notin rcc0[EnrOf(p)]
        /\ BitOf(p) \in rcc0[RstrOf(p)]


(***************************************************************************)
(* The capability facts of the compiled variant, by role.                  *)
(***************************************************************************)
WordSelectFact(P, T) == << P, T >> \in pin_ws(variant)

MasterClockFact(P, T) == << P, T >> \in pin_mck(variant)

BitClockFact(P, T) == << P, T >> \in pinSck

DataLineFact(P, T) == << P, T >> \in pinMosi

(***************************************************************************)
(* C4: a tuple (ws, ck, mck, sd) is accepted as the pins of P exactly when *)
(* ws has a word-select fact for P, ck a bit-clock fact, sd a data-line    *)
(* fact, and mck has a master-clock fact for P or is NoMasterClock; a pin  *)
(* with only a data-line fact for P is rejected in the word-select slot.   *)
(***************************************************************************)
C4_PinsIffFacts ==
    last.checked =>
        /\ last.ok <=>
              /\ WordSelectFact(last.per, last.ws)
              /\ BitClockFact(last.per, last.ck)
              /\ DataLineFact(last.per, last.sd)
              /\ \/ MasterClockFact(last.per, last.mck)
                 \/ last.mck = NoMasterClock
        /\ ( /\ DataLineFact(last.per, last.ws)
             /\ ~WordSelectFact(last.per, last.ws) ) => ~last.ok

C4_Witness ==
    /\ last.checked
    /\ ~last.ok
    /\ last.per \in EnableImpl(variant)
    /\ DataLineFact(last.per, last.ws)
    /\ ~WordSelectFact(last.per, last.ws)
    /\ BitClockFact(last.per, last.ck)
    /\ MasterClockFact(last.per, last.mck)
    /\ DataLineFact(last.per, last.sd)

(***************************************************************************)
(* C5: on every variant, NoMasterClock is accepted in the master-clock     *)
(* slot for exactly the peripherals the variant implements Enable for,     *)
(* whether or not a master-clock pin exists for them: a tuple with         *)
(* NoMasterClock whose other three pins are valid for such a peripheral    *)
(* is accepted.                                                            *)
(***************************************************************************)
C5_PlaceholderAccepted ==
    /\ \A P \in Periph :
          P \in EnableImpl(variant) <=> PinMck(variant, P, NoMasterClock)
    /\ ( /\ last.checked
         /\ last.per \in EnableImpl(variant)
         /\ last.mck = NoMasterClock
         /\ WordSelectFact(last.per, last.ws)
         /\ BitClockFact(last.per, last.ck)
         /\ DataLineFact(last.per, last.sd) ) => last.ok

C5_Witness ==
    /\ last.checked
    /\ last.ok
    /\ last.mck = NoMasterClock
    /\ last.per = "SPI4"
    /\ ~\E T \in MckTypes : MasterClockFact(last.per, T)

NonContradictory(facts) ==
    \A f, g \in facts :
        (f[1] = g[1] /\ f[2][1] = g[2][1]) => f[2][2] = g[2][2]

(***************************************************************************)
(* C6: on each of the 17 variants, no pin has two different alternate      *)
(* functions for the same peripheral in the word-select table, nor in the  *)
(* master-clock table; two alternate functions of one pin belong to        *)
(* different peripherals.                                                  *)
(***************************************************************************)
C6_OneAlternateFunction ==
    /\ Cardinality(Variants) = 17
    /\ NonContradictory(pin_ws(variant))
    /\ NonContradictory(pin_mck(variant))

C6_Witness ==
    /\ last.checked
    /\ last.ok
    /\ last.per = "SPI4"
    /\ last.ws = << "PB12", "AF6" >>
    /\ WordSelectFact("SPI2", << "PB12", "AF5" >>)
    /\ WordSelectFact("SPI4", << "PE4", "AF5" >>)
    /\ WordSelectFact("SPI5", << "PE4", "AF6" >>)

(***************************************************************************)
(* C8: on every variant each word-select pin type has a word-select fact   *)
(* for at most one peripheral, so a tuple of pin types is accepted for at  *)
(* most one peripheral.                                                    *)
(***************************************************************************)
C8_OnePeripheralPerBundle ==
    /\ LET ws == pin_ws(variant)
       IN  \A f, g \in ws : f[2] = g[2] => f[1] = g[1]
    /\ last.per # "none" =>
          Cardinality({ P \in Periph :
              Pins(variant, P, << last.ws, last.ck, last.mck, last.sd >>) }) <= 1

C8_Witness ==
    /\ last.checked
    /\ last.ok
    /\ last.ws = << "PE4", "AF6" >>
    /\ last.per = "SPI5"
    /\ BitClockFact("SPI4", last.ck)
    /\ DataLineFact("SPI4", last.sd)
    /\ PinMck(variant, "SPI4", last.mck)

====
